---------------------------- MODULE Spec2Model ----------------------------
(***************************************************************************)
(* State-machine model of the ingestion scripts:                           *)
(*   scripts/ingest_catalogueoflife.py  recursive taxonomy crawler         *)
(*   scripts/ingest_funguild.py         guid-keyed flat dataset            *)
(*   scripts/ingest_nemaguild.py        taxon-keyed flat dataset           *)
(* Spec          the crawler (run_ingestion / ingest_recursive)            *)
(* SpecExtract   extract_json_array on every short response text           *)
(* SpecNormalize normalize_record of both datasets on raw records          *)
(* SpecMerge     merge_duplicate_records on groups of duplicates           *)
(* SpecIngest    main of the two flat-dataset scripts, run after run       *)
(* SpecLive      the crawler on an unchanging source, its steps taken      *)
(*               fairly                                                    *)
(***************************************************************************)
EXTENDS Naturals, Integers, Sequences, FiniteSets, TLC

VARIABLES
    source,          \* the external tree API: api id -> list of child entries
    db,              \* the table as committed (what a rollback returns to)
    work,            \* the table as the open connection sees it
    stack,           \* call stack of ingest_recursive, innermost frame last
    record_counter,  \* module-level record_counter of this process
    pc,              \* "idle" | "crawl" | "committed" | "aborted"
    run,             \* number of crawls started so far
    failures,        \* fetches that failed in the current crawl
    failed,          \* call paths whose fetch failed in the current crawl
    lastOp,          \* what the last step did
    snap,            \* the table right after the last upsert whose number is a multiple of BATCH
    prev,            \* how the previous crawl ended
    arg,             \* flat datasets: the input of the function under check
    ret,             \* flat datasets: what the function returned
    fn,              \* flat datasets: which function has run
    script,          \* flat ingestion: "funguild" | "nemaguild", the script whose main runs
    table,           \* flat ingestion: the rows of the table as committed to the file
    conn,            \* flat ingestion: the rows as the open connection sees them
    main,            \* flat ingestion: the locals of main and its position
    clock,           \* flat ingestion: the wall clock, in ticks
    ingests,         \* flat ingestion: number of runs of main started so far
    before           \* flat ingestion: the table when the current run of main started

crawlVars == <<source, db, work, stack, record_counter, pc, run, failures,
               failed, lastOp, snap, prev>>

flatVars == <<arg, ret, fn>>

ingestVars == <<script, table, conn, main, clock, ingests, before>>

vars == <<crawlVars, flatVars, ingestVars>>

\* main before it has run
MainIdle ==
    [pc |-> "idle", raw_data |-> <<>>, total_fetched |-> 0, records |-> <<>>,
     skipped |-> 0, internal_duplicates |-> 0, processed |-> <<>>, i |-> 0,
     inserted_count |-> 0, updated_count |-> 0, merged_citations_count |-> 0,
     inserted |-> 0, updated |-> 0, merged_citations |-> 0, commits |-> 0,
     printed |-> FALSE, status |-> -1, failure |-> "none", dry_run |-> FALSE]

IngestIdle ==
    /\ script = "none" /\ table = <<>> /\ conn = <<>> /\ main = MainIdle
    /\ clock = 0 /\ ingests = 0 /\ before = <<>>

----------------------------------------------------------------------------
(* Bounds of the model *)

MaxRuns == 2
MaxFetchFailures == 1
WideN == 103

----------------------------------------------------------------------------
(* scripts/ingest_catalogueoflife.py: constants *)

ANCHOR_FUNGI_GUID == "F_0000000000_ANCHOR_FUNGI"

\* Python None, where the other values are strings
None == "<None>"

\* RANK_LEVEL_MAP.get(..) returning None
NoLevel == -1

RANK_LEVEL_MAP ==
    [r \in {"kingdom", "phylum", "class", "order", "family", "genus", "species"} |->
        CASE r = "kingdom" -> 0
          [] r = "phylum"  -> 3
          [] r = "class"   -> 5
          [] r = "order"   -> 7
          [] r = "family"  -> 9
          [] r = "genus"   -> 13
          [] r = "species" -> 20]

\* ranks = list(RANK_LEVEL_MAP.keys()); len(ranks)
NumRanks == Cardinality(DOMAIN RANK_LEVEL_MAP)

\* the batch size of "if record_counter % 100 == 0"
BATCH == 100

\* str.lower() and str.upper() on the rank strings the sources report:
\* <<string, lowered, uppered>>
CaseTable ==
    { <<"kingdom", "kingdom", "KINGDOM">>,
      <<"phylum", "phylum", "PHYLUM">>,
      <<"Phylum", "phylum", "PHYLUM">>,
      <<"class", "class", "CLASS">>,
      <<"Class", "class", "CLASS">>,
      <<"order", "order", "ORDER">>,
      <<"family", "family", "FAMILY">>,
      <<"genus", "genus", "GENUS">>,
      <<"species", "species", "SPECIES">>,
      <<"SPECIES", "species", "SPECIES">>,
      <<"subclass", "subclass", "SUBCLASS">>,
      <<"suborder", "suborder", "SUBORDER">> }

Lower(s) == (CHOOSE t \in CaseTable : t[1] = s)[2]

Upper(s) == (CHOOSE t \in CaseTable : t[1] = s)[3]

\* RANK_LEVEL_MAP.get(rank.lower())
LevelOf(rank) ==
    IF Lower(rank) \in DOMAIN RANK_LEVEL_MAP THEN RANK_LEVEL_MAP[Lower(rank)] ELSE NoLevel

\* f"GBIF_{rank.upper()}_{api_id}"
MintGuid(rank, api_id) == "GBIF_" \o Upper(rank) \o "_" \o api_id

\* json.dumps(raw_json, ensure_ascii=False)
JsonDumps(obj) == <<"json", obj>>

----------------------------------------------------------------------------
(* The external source: what GET /tree/{id}/children answers *)

Ch(id, name, rank) == [id |-> id, name |-> name, rank |-> rank]

Asco == Ch("1", "Ascomycota", "phylum")

Basidio == Ch("8", "Basidiomycota", "Phylum")

\* the example of the specification, continued down to a species
SrcExample ==
    [i \in {"F", "1", "3", "4"} |->
        CASE i = "F" -> <<Asco>>
          [] i = "1" -> <<Ch("2", "Not assigned", "class"), Ch("3", "Eurotiomycetes", "Class")>>
          [] i = "3" -> <<Ch("5", "", "order"), Ch("6", "Eurotiomycetidae", "subclass"),
                          Ch("4", "Eurotiales", "order"), Ch("11", None, "order")>>
          [] i = "4" -> <<Ch("7", "Aspergillus niger", "SPECIES"), Ch("12", "Aspergillus", "genus")>>]

\* the same tree after the source renamed the class with external id 3
SrcRenamed ==
    [SrcExample EXCEPT !["1"] = <<Ch("2", "Not assigned", "class"),
                                  Ch("3", "Eurotiomycetes s.l.", "class")>>]

\* one (name, rank) reported under two parents, with two external ids
SrcMoved ==
    [i \in {"F", "1", "8", "9"} |->
        CASE i = "F" -> <<Asco, Basidio>>
          [] i = "1" -> <<Ch("3", "Eurotiomycetes", "class")>>
          [] i = "8" -> <<Ch("9", "Eurotiomycetes", "class")>>
          [] i = "9" -> <<Ch("4", "Eurotiales", "order")>>]

\* a child that reports no rank, between two ordinary siblings
SrcNoRank ==
    [i \in {"F", "1"} |->
        CASE i = "F" -> <<Asco, Ch("10", "Incertae sedis", None), Basidio>>
          [] i = "1" -> <<Ch("3", "Eurotiomycetes", "class")>>]

\* a cyclic source that never reports a species
SrcCycle ==
    [i \in {"F", "20"} |-> <<Ch("20", "Ouroboros", "genus")>>]

Species(k) == Ch(ToString(100 + k), "Species " \o ToString(k), "species")

\* more children than one batch
SrcWide ==
    [i \in {"F"} |-> [k \in 1..WideN |-> Species(k)]]

\* a class with more species than one batch, the last entry without rank
SrcWideBad ==
    [i \in {"F", "1", "3"} |->
        CASE i = "F" -> <<Asco>>
          [] i = "1" -> <<Ch("3", "Eurotiomycetes", "class")>>
          [] i = "3" -> Append([k \in 1..WideN |-> Species(k)],
                               Ch("10", "Incertae sedis", None))]

Sources == {SrcExample, SrcRenamed, SrcMoved, SrcNoRank, SrcCycle, SrcWide, SrcWideBad}

\* get_id_level_base on success: response.json().get("result", [])
Children(src, api_id) == IF api_id \in DOMAIN src THEN src[api_id] ELSE <<>>

----------------------------------------------------------------------------
(* The table, in rowid order *)

Row(guid, taxon, level, parent_guid, raw_json, ingested_at) ==
    [guid |-> guid, taxon |-> taxon, taxonomicLevel |-> level,
     parent_guid |-> parent_guid, raw_json |-> raw_json, ingested_at |-> ingested_at]

\* SELECT guid FROM t WHERE taxon = ? AND taxonomicLevel = ?; fetchone()
SelectIdx(tbl, taxon, level) ==
    LET hits == {i \in 1..Len(tbl) : tbl[i].taxon = taxon /\ tbl[i].taxonomicLevel = level}
    IN  IF hits = {} THEN 0 ELSE CHOOSE i \in hits : \A j \in hits : i <= j

Guids(tbl) == {tbl[i].guid : i \in 1..Len(tbl)}

\* the UPDATE without its WHERE clause
UpdateParentAll(tbl, guid, parent_guid) ==
    [i \in 1..Len(tbl) |-> [tbl[i] EXCEPT !.parent_guid = parent_guid]]

\* UPDATE t SET parent_guid = ? WHERE guid = ?
UpdateParent(tbl, guid, parent_guid) ==
    [i \in 1..Len(tbl) |->
        IF tbl[i].guid = guid THEN [tbl[i] EXCEPT !.parent_guid = parent_guid] ELSE tbl[i]]

\* returning the identifier minted from the arguments instead of the stored one
FoundGuidMinted(tbl, i, rank, api_id) == MintGuid(rank, api_id)

\* the guid upsert_node returns for a row it found
FoundGuid(tbl, i, rank, api_id) == tbl[i].guid

\* upsert_node: [tbl, guid, kind]; kind "conflict" is the IntegrityError of
\* an INSERT whose guid (the PRIMARY KEY) is already in the table
upsert_node(tbl, taxon, level, parent_guid, api_id, rank, raw_json, now) ==
    LET i == SelectIdx(tbl, taxon, level)
    IN  IF i # 0
        THEN LET guid == FoundGuid(tbl, i, rank, api_id)
             IN  [tbl |-> UpdateParent(tbl, guid, parent_guid), guid |-> guid, kind |-> "update"]
        ELSE LET new_guid == MintGuid(rank, api_id)
             IN  IF new_guid \in Guids(tbl)
                 THEN [tbl |-> tbl, guid |-> new_guid, kind |-> "conflict"]
                 ELSE [tbl |-> Append(tbl, Row(new_guid, taxon, level, parent_guid,
                                               JsonDumps(raw_json), now)),
                       guid |-> new_guid, kind |-> "insert"]

----------------------------------------------------------------------------
(* ingest_recursive, one frame per call *)

Frame(api_id, parent_guid, idx, path) ==
    [api_id |-> api_id, parent_guid |-> parent_guid, current_rank_index |-> idx,
     children |-> <<>>, pos |-> 0, path |-> path]

Top == stack[Len(stack)]

Pop == SubSeq(stack, 1, Len(stack) - 1)

NoOp == [kind |-> "none", child |-> Ch("", "", ""), parent |-> "", guid |-> ""]

Op(kind, child, parent, guid) == [kind |-> kind, child |-> child, parent |-> parent, guid |-> guid]

\* "if name == 'Not assigned' or not name"
SkipName(name) == name = "Not assigned" \/ name = None \/ name = ""

\* the batch test off by one
CommitDueEarly(counter) == counter % BATCH = BATCH - 1

\* "if record_counter % 100 == 0: conn.commit()"
CommitDue(counter) == counter % BATCH = 0

\* the recursion entered for every stored child, species included
RecursesAlways(rank) == rank = rank

\* "if rank.lower() != 'species'"
Recurses(rank) == Lower(rank) # "species"

Init ==
    /\ source \in Sources
    /\ db = <<>>
    /\ work = <<>>
    /\ stack = <<>>
    /\ record_counter = 0
    /\ pc = "idle"
    /\ run = 0
    /\ failures = 0
    /\ failed = {}
    /\ lastOp = NoOp
    /\ snap = <<>>
    /\ prev = [ran |-> FALSE, source |-> SrcCycle, db |-> <<>>, clean |-> FALSE]
    /\ arg = <<>> /\ ret = <<>> /\ fn = "crawler"
    /\ IngestIdle

\* python ingest_catalogueoflife.py: a fresh process, record_counter = 0,
\* sqlite3.connect, ingest_recursive(conn, "F", ANCHOR_FUNGI_GUID, 1)
StartRun ==
    /\ pc = "idle"
    /\ run < MaxRuns
    /\ pc' = "crawl"
    /\ run' = run + 1
    /\ record_counter' = 0
    /\ work' = db
    /\ snap' = db
    /\ stack' = <<Frame("F", ANCHOR_FUNGI_GUID, 1, <<>>)>>
    /\ failures' = 0
    /\ failed' = {}
    /\ lastOp' = Op("start", NoOp.child, "", "")
    /\ UNCHANGED <<flatVars, ingestVars, source, db, prev>>

\* "if current_rank_index >= len(ranks): return"
DepthReturn ==
    /\ pc = "crawl" /\ stack # <<>> /\ Top.pos = 0
    /\ Top.current_rank_index >= NumRanks
    /\ stack' = Pop
    /\ lastOp' = Op("depth_return", NoOp.child, Top.parent_guid, "")
    /\ UNCHANGED <<flatVars, ingestVars, source, db, work, record_counter, pc, run, failures, failed, snap, prev>>

\* children = get_id_level_base(api_id) answered; "if not children: return"
FetchOk ==
    /\ pc = "crawl" /\ stack # <<>> /\ Top.pos = 0
    /\ Top.current_rank_index < NumRanks
    /\ LET children == Children(source, Top.api_id)
       IN  /\ stack' = IF children = <<>> THEN Pop
                       ELSE [stack EXCEPT ![Len(stack)].children = children,
                                          ![Len(stack)].pos = 1]
           /\ lastOp' = Op(IF children = <<>> THEN "fetch_empty" ELSE "fetch_ok",
                           NoOp.child, Top.parent_guid, "")
    /\ UNCHANGED <<flatVars, ingestVars, source, db, work, record_counter, pc, run, failures, failed, snap, prev>>

\* a fetch failure that propagates to run_ingestion
FetchFailureFatal == [stack |-> <<>>, pc |-> "aborted", work |-> db]

\* what ingest_recursive does with a fetch that raised inside get_id_level_base
\* ("except Exception: return []", then "if not children: return")
AfterFailedFetch == [stack |-> Pop, pc |-> "crawl", work |-> work]

\* get_id_level_base fails: network error, raise_for_status, response.json()
FetchFail ==
    /\ pc = "crawl" /\ stack # <<>> /\ Top.pos = 0
    /\ Top.current_rank_index < NumRanks
    /\ failures < MaxFetchFailures
    /\ failures' = failures + 1
    /\ failed' = failed \cup {Top.path}
    /\ stack' = AfterFailedFetch.stack
    /\ pc' = AfterFailedFetch.pc
    /\ work' = AfterFailedFetch.work
    /\ lastOp' = Op("fetch_fail", NoOp.child, Top.parent_guid, "")
    /\ UNCHANGED <<flatVars, ingestVars, source, db, record_counter, run, snap, prev>>

\* the exception reaches run_ingestion: conn.rollback()
Abort(kind, child, guid) ==
    /\ pc' = "aborted"
    /\ work' = db
    /\ stack' = <<>>
    /\ lastOp' = Op(kind, child, Top.parent_guid, guid)
    /\ UNCHANGED <<flatVars, ingestVars, source, db, record_counter, run, failures, failed, snap, prev>>

Advance == [stack EXCEPT ![Len(stack)].pos = Top.pos + 1]

\* one iteration of "for child in children" that ends in "continue"
SkipChild ==
    /\ pc = "crawl" /\ stack # <<>> /\ Top.pos >= 1 /\ Top.pos <= Len(Top.children)
    /\ LET child == Top.children[Top.pos]
       IN  /\ \/ SkipName(child.name)
              \/ (child.rank # None /\ LevelOf(child.rank) = NoLevel)
           /\ stack' = Advance
           /\ lastOp' = Op(IF SkipName(child.name) THEN "skip_name" ELSE "skip_rank",
                           child, Top.parent_guid, "")
    /\ UNCHANGED <<flatVars, ingestVars, source, db, work, record_counter, pc, run, failures, failed, snap, prev>>

\* rank.lower() on a child without rank: AttributeError
NoRankChild ==
    /\ pc = "crawl" /\ stack # <<>> /\ Top.pos >= 1 /\ Top.pos <= Len(Top.children)
    /\ LET child == Top.children[Top.pos]
       IN  /\ ~SkipName(child.name)
           /\ child.rank = None
           /\ Abort("abort_norank", child, "")

\* one iteration that reaches upsert_node
UpsertChild ==
    /\ pc = "crawl" /\ stack # <<>> /\ Top.pos >= 1 /\ Top.pos <= Len(Top.children)
    /\ LET child == Top.children[Top.pos]
       IN  /\ ~SkipName(child.name)
           /\ child.rank # None
           /\ LevelOf(child.rank) # NoLevel
           /\ LET r == upsert_node(work, child.name, LevelOf(child.rank), Top.parent_guid,
                                   child.id, child.rank, child, <<run, record_counter + 1>>)
              IN  IF r.kind = "conflict"
                  THEN Abort("abort_conflict", child, r.guid)
                  ELSE /\ work' = r.tbl
                       /\ record_counter' = record_counter + 1
                       /\ db' = IF CommitDue(record_counter + 1) THEN r.tbl ELSE db
                       /\ snap' = IF (record_counter + 1) % BATCH = 0 THEN r.tbl ELSE snap
                       /\ stack' = IF Recurses(child.rank)
                                   THEN Append(Advance,
                                               Frame(child.id, r.guid,
                                                     Top.current_rank_index + 1,
                                                     Append(Top.path, Top.pos)))
                                   ELSE Advance
                       /\ lastOp' = Op(r.kind, child, Top.parent_guid, r.guid)
                       /\ UNCHANGED <<flatVars, ingestVars, source, pc, run, failures, failed, prev>>

\* the for loop is exhausted: the call returns
Return ==
    /\ pc = "crawl" /\ stack # <<>> /\ Top.pos > Len(Top.children)
    /\ stack' = Pop
    /\ lastOp' = Op("return", NoOp.child, Top.parent_guid, "")
    /\ UNCHANGED <<flatVars, ingestVars, source, db, work, record_counter, pc, run, failures, failed, snap, prev>>

\* run_ingestion after ingest_recursive returned: conn.commit()
FinalCommit ==
    /\ pc = "crawl" /\ stack = <<>>
    /\ db' = work
    /\ pc' = "committed"
    /\ lastOp' = Op("final_commit", NoOp.child, "", "")
    /\ UNCHANGED <<flatVars, ingestVars, source, work, stack, record_counter, run, failures, failed, snap, prev>>

\* finally: conn.close(); the process ends
Close ==
    /\ pc \in {"committed", "aborted"}
    /\ pc' = "idle"
    /\ prev' = [ran |-> TRUE, source |-> source, db |-> db, clean |-> failures = 0]
    /\ record_counter' = 0
    /\ work' = db
    /\ snap' = db
    /\ failures' = 0
    /\ failed' = {}
    /\ lastOp' = NoOp
    /\ UNCHANGED <<flatVars, ingestVars, source, db, stack, run>>

\* the external source changes between two crawls
ChangeSource ==
    /\ pc = "idle" /\ run >= 1 /\ run < MaxRuns
    /\ lastOp.kind = "none"
    /\ \E s \in Sources \ {source} : source' = s
    /\ lastOp' = Op("change", NoOp.child, "", "")
    /\ UNCHANGED <<flatVars, ingestVars, db, work, stack, record_counter, pc, run, failures, failed, snap, prev>>

Next ==
    \/ StartRun
    \/ DepthReturn
    \/ FetchOk
    \/ FetchFail
    \/ SkipChild
    \/ NoRankChild
    \/ UpsertChild
    \/ Return
    \/ FinalCommit
    \/ Close
    \/ ChangeSource

Spec == Init /\ [][Next]_vars

\* a step of a crawl that has started: the process is single-threaded and
\* synchronous, every call and every loop iteration is carried out
CrawlStep ==
    \/ DepthReturn
    \/ FetchOk
    \/ FetchFail
    \/ SkipChild
    \/ NoRankChild
    \/ UpsertChild
    \/ Return
    \/ FinalCommit
    \/ Close

\* crawl after crawl of a source that does not change in between
NextLive ==
    \/ StartRun
    \/ DepthReturn
    \/ FetchOk
    \/ FetchFail
    \/ SkipChild
    \/ NoRankChild
    \/ UpsertChild
    \/ Return
    \/ FinalCommit
    \/ Close

SpecLive == Init /\ [][NextLive]_vars /\ WF_vars(CrawlStep)

----------------------------------------------------------------------------
(* Response texts and json.loads, over a small alphabet.  "x" stands for   *)
(* any character that starts no JSON value; "1" is a digit.                *)

MaxLen == 5

Quote == "\""

Chars == {"[", "]", ",", "1", Quote, "x"}

Texts == UNION {[1..n -> Chars] : n \in 0..MaxLen}

NotRun == [ok |-> FALSE, data |-> <<"not run">>]

\* the Python value None returned in place of a list
NoList == [ok |-> FALSE, data |-> <<>>]

ParseFail == [ok |-> FALSE, next |-> 0, val |-> <<>>]

\* the end of the run of digits that starts at i
RECURSIVE DigitsEnd(_, _)
DigitsEnd(s, i) == IF i <= Len(s) /\ s[i] = "1" THEN DigitsEnd(s, i + 1) ELSE i

\* the closing quote of the string that opens before i; 0 if there is none
RECURSIVE StringEnd(_, _)
StringEnd(s, i) ==
    IF i > Len(s) THEN 0 ELSE IF s[i] = Quote THEN i ELSE StringEnd(s, i + 1)

\* json's scanner: the value that starts at position i, [ok, next, val]
RECURSIVE ParseValue(_, _), ParseElems(_, _, _)
ParseValue(s, i) ==
    IF i > Len(s) THEN ParseFail
    ELSE IF s[i] = "1"
         THEN [ok |-> TRUE, next |-> DigitsEnd(s, i), val |-> <<"num", DigitsEnd(s, i) - i>>]
    ELSE IF s[i] = Quote
         THEN LET j == StringEnd(s, i + 1)
              IN  IF j = 0 THEN ParseFail
                  ELSE [ok |-> TRUE, next |-> j + 1, val |-> <<"str", SubSeq(s, i + 1, j - 1)>>]
    ELSE IF s[i] = "["
         THEN IF i + 1 <= Len(s) /\ s[i + 1] = "]"
              THEN [ok |-> TRUE, next |-> i + 2, val |-> <<"list", <<>>>>]
              ELSE ParseElems(s, i + 1, <<>>)
    ELSE ParseFail

\* the elements of an array after its "[" or after a ","
ParseElems(s, i, acc) ==
    LET v == ParseValue(s, i)
    IN  IF ~v.ok \/ v.next > Len(s) THEN ParseFail
        ELSE IF s[v.next] = ","
             THEN ParseElems(s, v.next + 1, Append(acc, v.val))
        ELSE IF s[v.next] = "]"
             THEN [ok |-> TRUE, next |-> v.next + 1, val |-> <<"list", Append(acc, v.val)>>]
        ELSE ParseFail

\* json.loads(s): the whole of s is one value, else JSONDecodeError
JsonLoads(s) ==
    LET v == ParseValue(s, 1)
    IN  IF v.ok /\ v.next = Len(s) + 1 THEN [ok |-> TRUE, val |-> v.val]
        ELSE [ok |-> FALSE, val |-> <<>>]

\* isinstance(data, list)
IsList(val) == val[1] = "list"

\* text.find(c) and text.rfind(c), 1-based, 0 for -1
Find(text, c) ==
    IF \E i \in 1..Len(text) : text[i] = c
    THEN CHOOSE i \in 1..Len(text) : text[i] = c /\ \A j \in 1..(i - 1) : text[j] # c
    ELSE 0

RFind(text, c) ==
    IF \E i \in 1..Len(text) : text[i] = c
    THEN CHOOSE i \in 1..Len(text) : text[i] = c /\ \A j \in (i + 1)..Len(text) : text[j] # c
    ELSE 0

\* [m.start() for m in re.finditer(r'\]', text)] below end_pos, largest first:
\* the for loop over matches, with its break and its continue
RECURSIVE ShrinkFrom(_, _, _)
ShrinkFrom(text, first_open, end_pos) ==
    IF end_pos < 1 THEN NoList
    ELSE IF text[end_pos] # "]" THEN ShrinkFrom(text, first_open, end_pos - 1)
    ELSE IF end_pos < first_open THEN NoList
    ELSE LET data == JsonLoads(SubSeq(text, first_open, end_pos))
         IN  IF data.ok /\ IsList(data.val) THEN [ok |-> TRUE, data |-> data.val]
             ELSE ShrinkFrom(text, first_open, end_pos - 1)

\* the first attempt alone: first "[" to last "]", no shrinking
ExtractNoShrink(text) ==
    LET first_open == Find(text, "[")
        last_close == RFind(text, "]")
        data       == JsonLoads(SubSeq(text, first_open, last_close))
    IN  IF first_open = 0 \/ last_close = 0 \/ last_close < first_open THEN NoList
        ELSE IF data.ok /\ IsList(data.val) THEN [ok |-> TRUE, data |-> data.val]
        ELSE NoList

\* ingest_nemaguild.extract_json_array
nema_extract_json_array(text) ==
    LET first_open == Find(text, "[")
        last_close == RFind(text, "]")
    IN  IF first_open = 0 THEN NoList
        ELSE IF last_close = 0 \/ last_close < first_open THEN NoList
        ELSE LET data == JsonLoads(SubSeq(text, first_open, last_close))
             IN  IF data.ok /\ IsList(data.val) THEN [ok |-> TRUE, data |-> data.val]
                 ELSE ShrinkFrom(text, first_open, Len(text))

\* every "[" tried as a start, left to right, each with the shrinking search
ExtractAnyStart(text) ==
    LET good == {i \in 1..Len(text) : text[i] = "[" /\ ShrinkFrom(text, i, Len(text)).ok}
    IN  IF good = {} THEN NoList
        ELSE ShrinkFrom(text, CHOOSE i \in good : \A j \in good : i <= j, Len(text))

\* ingest_funguild.extract_json_array
fun_extract_json_array(text) ==
    LET start_candidates == {i \in 1..Len(text) : text[i] = "["}
        first_open == Find(text, "[")
        last_close == RFind(text, "]")
    IN  IF start_candidates = {} THEN NoList
        ELSE IF first_open = 0 THEN NoList
        ELSE IF last_close = 0 \/ last_close < first_open THEN NoList
        ELSE LET data == JsonLoads(SubSeq(text, first_open, last_close))
             IN  IF data.ok /\ IsList(data.val) THEN [ok |-> TRUE, data |-> data.val]
                 ELSE ShrinkFrom(text, first_open, Len(text))

CrawlerIdle ==
    /\ source = SrcCycle /\ db = <<>> /\ work = <<>> /\ stack = <<>>
    /\ record_counter = 0 /\ pc = "flat" /\ run = 0 /\ failures = 0 /\ failed = {}
    /\ lastOp = NoOp /\ snap = <<>>
    /\ prev = [ran |-> FALSE, source |-> SrcCycle, db |-> <<>>, clean |-> FALSE]

InitExtract ==
    /\ CrawlerIdle
    /\ IngestIdle
    /\ arg \in Texts
    /\ ret = NotRun
    /\ fn = "text"

ExtractFunguild ==
    /\ fn = "text"
    /\ ret' = fun_extract_json_array(arg)
    /\ fn' = "funguild"
    /\ UNCHANGED <<crawlVars, ingestVars, arg>>

ExtractNemaguild ==
    /\ fn = "text"
    /\ ret' = nema_extract_json_array(arg)
    /\ fn' = "nemaguild"
    /\ UNCHANGED <<crawlVars, ingestVars, arg>>

NextExtract ==
    \/ ExtractFunguild
    \/ ExtractNemaguild

SpecExtract == InitExtract /\ [][NextExtract]_vars

(* Properties of extract_json_array, checked under SpecExtract *)

Extracted == fn \in {"funguild", "nemaguild"}

\* s is the text of one JSON array
IsArrayText(s) ==
    /\ Len(s) >= 2 /\ s[1] = "[" /\ s[Len(s)] = "]"
    /\ JsonLoads(s).ok
    /\ IsList(JsonLoads(s).val)

\* some stretch of s is the text of a JSON array
HoldsArray(s) ==
    \E i \in 1..Len(s) : \E j \in i..Len(s) : IsArrayText(SubSeq(s, i, j))

\* the text holds no "[" that a later "]" follows
NoBracketPair(s) ==
    ~ \E i \in 1..Len(s) : \E j \in (i + 1)..Len(s) : s[i] = "[" /\ s[j] = "]"

\* C8 as stated: whatever wrapper text, itself holding no array, stands before
\* and after the one embedded JSON array, that array is returned; a text with
\* no "[" followed by a "]" gives None.
C8_WrappedArrayExtracted ==
    Extracted =>
        /\ \A i \in 1..Len(arg) : \A j \in i..Len(arg) :
              (/\ IsArrayText(SubSeq(arg, i, j))
               /\ ~HoldsArray(SubSeq(arg, 1, i - 1))
               /\ ~HoldsArray(SubSeq(arg, j + 1, Len(arg))))
                  => ret = [ok |-> TRUE, data |-> JsonLoads(SubSeq(arg, i, j)).val]
        /\ NoBracketPair(arg) => ret = NoList

\* C8 amended: the same, for wrapper text that holds no "[" before the array.
C8_WrappedArrayExtractedNoOpenBefore ==
    Extracted =>
        /\ \A i \in 1..Len(arg) : \A j \in i..Len(arg) :
              (/\ IsArrayText(SubSeq(arg, i, j))
               /\ \A k \in 1..(i - 1) : arg[k] # "["
               /\ ~HoldsArray(SubSeq(arg, j + 1, Len(arg))))
                  => ret = [ok |-> TRUE, data |-> JsonLoads(SubSeq(arg, i, j)).val]
        /\ NoBracketPair(arg) => ret = NoList

\* wrapper text on both sides, a "]" in the trailing text: found by shrinking
C8_Witness ==
    /\ Extracted
    /\ ret.ok
    /\ \E i \in 2..Len(arg) : \E j \in i..(Len(arg) - 1) :
          /\ IsArrayText(SubSeq(arg, i, j))
          /\ \A k \in 1..(i - 1) : arg[k] # "["
          /\ \E k \in (j + 1)..Len(arg) : arg[k] = "]"
          /\ ~HoldsArray(SubSeq(arg, j + 1, Len(arg)))
          /\ ret.data = JsonLoads(SubSeq(arg, i, j)).val

----------------------------------------------------------------------------
(* Field values: strings are sequences of characters; the other Python     *)
(* values are tagged tuples whose tag is no character.                     *)

\* None (a missing key reads as None through rec.get)
Null == <<"None">>

\* a Python int
PyInt(n) == <<"int", n>>

\* datetime.datetime.now(datetime.timezone.utc).isoformat() at clock tick t
IsoTime(t) == <<"time", t>>

IsTagged(v) == Len(v) > 0 /\ v[1] \in {"None", "int", "time", "json"}

IsStr(v) == ~IsTagged(v)

DigitChars == <<"0", "1", "2", "3", "4", "5", "6", "7", "8", "9">>

IsDigit(c) == \E d \in 1..10 : DigitChars[d] = c

DigitValue(c) == (CHOOSE d \in 1..10 : DigitChars[d] = c) - 1

RECURSIVE Digits(_)
Digits(n) ==
    IF n < 10 THEN <<DigitChars[n + 1]>> ELSE Append(Digits(n \div 10), DigitChars[(n % 10) + 1])

\* str(val)
Str(val) ==
    IF IsStr(val) THEN val
    ELSE IF val[1] = "int" THEN Digits(val[2])
    ELSE val

\* str.strip()
RECURSIVE LStrip(_)
LStrip(s) == IF Len(s) > 0 /\ s[1] = " " THEN LStrip(Tail(s)) ELSE s

RECURSIVE RStrip(_)
RStrip(s) ==
    IF Len(s) > 0 /\ s[Len(s)] = " " THEN RStrip(SubSeq(s, 1, Len(s) - 1)) ELSE s

Strip(s) == RStrip(LStrip(s))

UpperChar(c) ==
    CASE c = "n" -> "N"
      [] c = "u" -> "U"
      [] c = "l" -> "L"
      [] c = "a" -> "A"
      [] c = "b" -> "B"
      [] OTHER   -> c

\* str.upper()
UpperStr(s) == [i \in 1..Len(s) |-> UpperChar(s[i])]

NULLSTR == <<"N", "U", "L", "L">>

\* clean_str of both normalize_record
clean_str(val) ==
    IF val = Null THEN Null
    ELSE LET t == Strip(Str(val))
         IN  IF UpperStr(t) = NULLSTR THEN Null ELSE t

\* "not v" of Python for None, strings and ints
Falsy(v) == v = Null \/ v = <<>> \/ v = PyInt(0)

RECURSIVE DigitsValue(_, _)
DigitsValue(s, acc) ==
    IF s = <<>> THEN acc ELSE DigitsValue(Tail(s), 10 * acc + DigitValue(s[1]))

\* int(t_level) inside try/except ValueError: Null on failure
ToInt(t) ==
    LET body == IF Len(t) > 0 /\ t[1] \in {"-", "+"} THEN Tail(t) ELSE t
    IN  IF body = <<>> \/ \E i \in 1..Len(body) : ~IsDigit(body[i]) THEN Null
        ELSE IF t[1] = "-" THEN PyInt(0 - DigitsValue(body, 0))
        ELSE PyInt(DigitsValue(body, 0))

\* "taxonomicLevel: cast to int if possible"
CastLevel(val) == IF clean_str(val) = Null THEN Null ELSE ToInt(clean_str(val))

NoRecord == <<"no record">>

TextFields == {"mbNumber", "trophicMode", "guild", "confidenceRanking", "growthForm",
               "trait", "notes", "citationSource"}

RawFields == {"guid", "taxon", "taxonomicLevel"} \cup TextFields

\* the fields of a canonical record
NormBody(rec, guid, taxon, now) ==
    [f \in RawFields \cup {"raw_json", "ingested_at"} |->
        CASE f = "guid"           -> guid
          [] f = "taxon"          -> taxon
          [] f = "taxonomicLevel" -> CastLevel(rec[f])
          [] f = "raw_json"       -> <<"json", rec>>
          [] f = "ingested_at"    -> IsoTime(now)
          [] OTHER                -> clean_str(rec[f])]

\* ingest_funguild.normalize_record
fun_normalize_record(rec, now) ==
    LET guid == rec["guid"]
    IN  IF Falsy(guid) \/ (IsStr(guid) /\ Strip(guid) = <<>>) THEN NoRecord
        ELSE NormBody(rec, Strip(Str(guid)), clean_str(rec["taxon"]), now)

\* ingest_nemaguild.normalize_record
nema_normalize_record(rec, now) ==
    LET taxon == clean_str(rec["taxon"])
    IN  IF Falsy(taxon) THEN NoRecord
        ELSE NormBody(rec, clean_str(rec["guid"]), taxon, now)

S(str) ==
    CASE str = "NULL"        -> <<"N", "U", "L", "L">>
      [] str = "null"        -> <<"n", "u", "l", "l">>
      [] str = " Null "      -> <<" ", "N", "u", "l", "l", " ">>
      [] str = "a"           -> <<"a">>
      [] str = " a "         -> <<" ", "a", " ">>
      [] str = "13"          -> <<"1", "3">>
      [] str = "13a"         -> <<"1", "3", "a">>
      [] str = " "           -> <<" ">>
      [] str = ""            -> <<>>

\* values a raw record may hold in a field
RawValues == {Null, S(""), S(" "), S("NULL"), S("null"), S(" Null "), S("a"), S(" a "),
              S("13"), S("13a"), PyInt(13)}

BaseRecord ==
    [f \in RawFields |->
        CASE f = "guid"           -> <<"g", "1">>
          [] f = "taxon"          -> <<"T", "a", "x">>
          [] f = "taxonomicLevel" -> S("13")
          [] OTHER                -> S("a")]

InitNormalize ==
    /\ CrawlerIdle
    /\ IngestIdle
    /\ \E g \in RawValues, t \in RawValues, f \in RawFields \ {"guid", "taxon"}, v \in RawValues :
          arg = [BaseRecord EXCEPT !["guid"] = g, !["taxon"] = t, ![f] = v]
    /\ ret = NoRecord
    /\ fn = "raw"

NormalizeFunguild ==
    /\ fn = "raw"
    /\ ret' = fun_normalize_record(arg, 1)
    /\ fn' = "funguild"
    /\ UNCHANGED <<crawlVars, ingestVars, arg>>

NormalizeNemaguild ==
    /\ fn = "raw"
    /\ ret' = nema_normalize_record(arg, 1)
    /\ fn' = "nemaguild"
    /\ UNCHANGED <<crawlVars, ingestVars, arg>>

NextNormalize ==
    \/ NormalizeFunguild
    \/ NormalizeNemaguild

SpecNormalize == InitNormalize /\ [][NextNormalize]_vars

(* Properties of normalize_record, checked under SpecNormalize *)

\* a string that reads NULL, in any letter case, once trimmed
IsNullString(v) == IsStr(v) /\ UpperStr(Strip(v)) = NULLSTR

\* C9: in both datasets no field of a returned record is a string that reads
\* NULL once trimmed: such an input comes out as null, or, in the natural
\* key, makes normalize_record return no record.
C9_NoNullStringReturned ==
    (fn \in {"funguild", "nemaguild"} /\ ret # NoRecord)
        => \A f \in DOMAIN ret : ~IsNullString(ret[f])

C9_NemaguildWitness ==
    /\ fn = "nemaguild"
    /\ IsNullString(arg["taxon"])
    /\ ret = NoRecord

----------------------------------------------------------------------------
(* ingest_nemaguild.py: merge_citations and merge_duplicate_records *)

MaxGroup == 2

\* the separator a match of r'\s*(?:\|\||;)\s*' contains at position i: its length, 0 if none
SepAt(s, i) ==
    IF s[i] = ";" THEN 1
    ELSE IF s[i] = "|" /\ i + 1 <= Len(s) /\ s[i + 1] = "|" THEN 2
    ELSE 0

\* the pieces between the separators, left to right
RECURSIVE SplitRaw(_, _, _)
SplitRaw(s, i, cur) ==
    IF i > Len(s) THEN <<cur>>
    ELSE IF SepAt(s, i) > 0 THEN <<cur>> \o SplitRaw(s, i + SepAt(s, i), <<>>)
    ELSE SplitRaw(s, i + 1, Append(cur, s[i]))

\* re.split(r'\s*(?:\|\||;)\s*', cit): a match takes the white space on both
\* sides of its separator
ReSplit(cit) ==
    LET raw == SplitRaw(cit, 1, <<>>)
    IN  [k \in 1..Len(raw) |->
            LET l == IF k > 1 THEN LStrip(raw[k]) ELSE raw[k]
            IN  IF k < Len(raw) THEN RStrip(l) ELSE l]

\* all_citations: the parts of every non-empty citation, in list order
RECURSIVE AllParts(_)
AllParts(citations) ==
    IF citations = <<>> THEN <<>>
    ELSE (IF Falsy(citations[1]) THEN <<>> ELSE ReSplit(citations[1]))
         \o AllParts(Tail(citations))

\* unique_citations: stripped, non-empty, first occurrence kept
RECURSIVE Unique(_, _)
Unique(parts, acc) ==
    IF parts = <<>> THEN acc
    ELSE LET cit == Strip(parts[1])
         IN  IF cit # <<>> /\ ~ \E k \in 1..Len(acc) : acc[k] = cit
             THEN Unique(Tail(parts), Append(acc, cit))
             ELSE Unique(Tail(parts), acc)

\* " || ".join(..)
RECURSIVE Join(_)
Join(items) ==
    IF items = <<>> THEN <<>>
    ELSE IF Len(items) = 1 THEN items[1]
    ELSE items[1] \o <<" ", "|", "|", " ">> \o Join(Tail(items))

\* merge_citations
merge_citations(citations) == Join(Unique(AllParts(citations), <<>>))

\* ingested_at of a record, as the clock tick it was taken at (ISO strings
\* of one time zone compare as their instants do)
Tick(rec) == rec["ingested_at"][2]

\* sorted(records, key=lambda x: x['ingested_at'], reverse=True): stable,
\* the records of one timestamp keep their order
RECURSIVE InsertDesc(_, _)
InsertDesc(sorted, rec) ==
    IF sorted = <<>> THEN <<rec>>
    ELSE IF Tick(sorted[1]) >= Tick(rec) THEN <<sorted[1]>> \o InsertDesc(Tail(sorted), rec)
    ELSE <<rec>> \o sorted

RECURSIVE SortedDesc(_)
SortedDesc(records) ==
    IF records = <<>> THEN <<>>
    ELSE InsertDesc(SortedDesc(SubSeq(records, 1, Len(records) - 1)), records[Len(records)])

\* the list `citations` of merge_duplicate_records
RECURSIVE Citations(_)
Citations(sorted_records) ==
    IF sorted_records = <<>> THEN <<>>
    ELSE (IF Falsy(sorted_records[1]["citationSource"]) THEN <<>>
          ELSE <<sorted_records[1]["citationSource"]>>)
         \o Citations(Tail(sorted_records))

\* the keys of "for key in [...]", in that order
MergeKeys == <<"guild", "notes", "trait", "confidenceRanking", "trophicMode", "growthForm",
               "guid", "mbNumber">>

\* the older value taken whenever there is one, without "not merged.get(key)"
FillFromAlways(merged, rec) ==
    [f \in DOMAIN merged |->
        IF (\E k \in 1..Len(MergeKeys) : MergeKeys[k] = f) /\ ~Falsy(rec[f])
        THEN rec[f] ELSE merged[f]]

\* "if not merged.get(key) and rec.get(key): merged[key] = rec[key]" over the keys
FillFrom(merged, rec) ==
    [f \in DOMAIN merged |->
        IF (\E k \in 1..Len(MergeKeys) : MergeKeys[k] = f) /\ Falsy(merged[f]) /\ ~Falsy(rec[f])
        THEN rec[f] ELSE merged[f]]

\* "for rec in sorted_records[1:]"
RECURSIVE FillAll(_, _)
FillAll(merged, rest) ==
    IF rest = <<>> THEN merged ELSE FillAll(FillFrom(merged, rest[1]), Tail(rest))

\* merge_citations called whether or not any member has a citation source
MergeAlwaysCitations(records) ==
    IF Len(records) = 1 THEN records[1]
    ELSE LET sorted_records == SortedDesc(records)
             merged == [sorted_records[1] EXCEPT
                           !["citationSource"] = merge_citations(Citations(sorted_records))]
         IN  FillAll(merged, Tail(sorted_records))

\* merge_duplicate_records
merge_duplicate_records(records) ==
    IF Len(records) = 1 THEN records[1]
    ELSE LET sorted_records == SortedDesc(records)
             citations == Citations(sorted_records)
             merged == IF citations # <<>>
                       THEN [sorted_records[1] EXCEPT
                                !["citationSource"] = merge_citations(citations)]
                       ELSE sorted_records[1]
         IN  FillAll(merged, Tail(sorted_records))

C(str) ==
    CASE str = "A"        -> <<"A">>
      [] str = "B || A"   -> <<"B", " ", "|", "|", " ", "A">>
      [] str = "A;B"      -> <<"A", ";", "B">>
      [] str = " B ; B"   -> <<" ", "B", " ", ";", " ", "B">>
      [] str = "A||"      -> <<"A", "|", "|">>

\* citation sources of normalized records (clean_str never returns "NULL")
CitationValues == {Null, <<>>, C("A"), C("B || A"), C("A;B"), C(" B ; B"), C("A||")}

\* values of the other text fields of normalized records
FieldValues == {Null, <<>>, <<"a">>, <<"b">>}

\* a normalized record of the taxon-keyed dataset for taxon "Panagrolaimus"
FlatRecord(cit, guild, now) ==
    [f \in RawFields \cup {"raw_json", "ingested_at"} |->
        CASE f = "taxon"          -> <<"P", "a", "n">>
          [] f = "taxonomicLevel" -> PyInt(13)
          [] f = "citationSource" -> cit
          [] f = "guild"          -> guild
          [] f = "raw_json"       -> <<"json", now>>
          [] f = "ingested_at"    -> IsoTime(now)
          [] OTHER                -> Null]

\* groups of duplicates in arrival order: the clock never runs backwards
Groups ==
    UNION { { g \in [1..n -> { FlatRecord(c, gl, t) :
                                 c \in CitationValues, gl \in FieldValues, t \in 1..n }] :
                \A k \in 1..(n - 1) : Tick(g[k]) <= Tick(g[k + 1]) }
            : n \in 1..MaxGroup }

InitMerge ==
    /\ CrawlerIdle
    /\ IngestIdle
    /\ arg \in Groups
    /\ ret = NoRecord
    /\ fn = "group"

MergeDuplicates ==
    /\ fn = "group"
    /\ ret' = merge_duplicate_records(arg)
    /\ fn' = "merged"
    /\ UNCHANGED <<crawlVars, ingestVars, arg>>

NextMerge == MergeDuplicates

SpecMerge == InitMerge /\ [][NextMerge]_vars

(* Properties of merge_duplicate_records, checked under SpecMerge *)

\* the citation sources of a group in arrival order
RECURSIVE ArrivalCitations(_)
ArrivalCitations(records) ==
    IF records = <<>> THEN <<>>
    ELSE <<records[1]["citationSource"]>> \o ArrivalCitations(Tail(records))

\* C10: the merged citation source of a group of duplicates holds every
\* distinct trimmed entry of the group once, joined with " || ", in the order
\* of first sight over the records in arrival order ("A" then "B || A" give
\* "A || B").
C10_CitationsInArrivalOrder ==
    (/\ fn = "merged"
     /\ Len(arg) >= 2
     /\ \E k \in 1..Len(arg) : ~Falsy(arg[k]["citationSource"]))
        => ret["citationSource"] = Join(Unique(AllParts(ArrivalCitations(arg)), <<>>))

----------------------------------------------------------------------------
(* ingest_funguild.py and ingest_nemaguild.py: main, run after run against *)
(* the same database file                                                  *)

MaxIngests == 2

\* the column that is the table's PRIMARY KEY
KeyField == IF script = "funguild" THEN "guid" ELSE "taxon"

\* a raw record of the response, by its natural key and the fields that vary
RawRecord(key, cit, guild, level) ==
    [f \in RawFields |->
        CASE f = KeyField         -> key
          [] f = "citationSource" -> cit
          [] f = "guild"          -> guild
          [] f = "taxonomicLevel" -> level
          [] OTHER                -> Null]

Key1 == <<"k", "1">>

Key2 == <<"k", "2">>

RecFull == RawRecord(Key1, C("A"), <<"a">>, S("13"))

RecOther == RawRecord(Key1, C("B || A"), <<"b">>, Null)

RecBare == RawRecord(Key1, Null, Null, Null)

RecBlank == RawRecord(Key1, S(" "), S(" "), S("13a"))

RecSecond == RawRecord(Key2, C("A"), Null, S("13"))

RecNoKey == RawRecord(Null, C("A"), <<"a">>, S("13"))

\* the record lists a response may carry
Batches ==
    {<<>>, <<RecFull>>, <<RecOther>>, <<RecBare>>, <<RecBlank>>, <<RecNoKey>>,
     <<RecFull, RecOther>>, <<RecSecond, RecFull>>, <<RecNoKey, RecSecond>>}

\* the text of a JSON array of n records, each record written "1"
RECURSIVE Items(_)
Items(n) == IF n = 1 THEN <<"1">> ELSE <<"1", ",">> \o Items(n - 1)

ArrayText(n) == IF n = 0 THEN <<"[", "]">> ELSE <<"[">> \o Items(n) \o <<"]">>

\* what requests.get gives: an error, or a body whose text holds (or does
\* not hold) the array of the records
Bodies ==
    {[error |-> TRUE, text |-> <<>>, records |-> <<>>],
     [error |-> FALSE, text |-> <<"x", "1", "x">>, records |-> <<>>],
     [error |-> FALSE, text |-> <<"1">>, records |-> <<>>]}
    \cup {[error |-> FALSE, text |-> ArrayText(Len(b)), records |-> b] : b \in Batches}
    \cup {[error |-> FALSE, text |-> <<"x">> \o ArrayText(Len(b)) \o <<"x", "]">>,
           records |-> b] : b \in Batches}

\* extract_json_array of the script that runs
extract_json_array(text) ==
    IF script = "funguild" THEN fun_extract_json_array(text)
    ELSE nema_extract_json_array(text)

\* fetch_data: the list, or sys.exit(1) after a RequestException or when
\* neither resp.json() nor the fallback extraction gives a list
fetch_data(body) ==
    IF body.error THEN [ok |-> FALSE, failure |-> "transport", data |-> <<>>]
    ELSE LET direct    == JsonLoads(body.text)
             extracted == extract_json_array(body.text)
         IN  IF direct.ok /\ IsList(direct.val)
             THEN [ok |-> TRUE, failure |-> "none",
                   data |-> [k \in 1..Len(direct.val[2]) |-> body.records[k]]]
             ELSE IF extracted.ok
             THEN [ok |-> TRUE, failure |-> "none",
                   data |-> [k \in 1..Len(extracted.data[2]) |-> body.records[k]]]
             ELSE [ok |-> FALSE, failure |-> "parse", data |-> <<>>]

\* normalize_record of the script that runs
normalize_record(rec, now) ==
    IF script = "funguild" THEN fun_normalize_record(rec, now)
    ELSE nema_normalize_record(rec, now)

\* "for item in raw_data": valid_records and the skipped count; ticks[k] is
\* the clock reading of the k-th call
RECURSIVE NormalizeAll(_, _, _)
NormalizeAll(raw_data, ticks, acc) ==
    IF raw_data = <<>> THEN acc
    ELSE LET normalized == normalize_record(raw_data[1], ticks[1])
         IN  NormalizeAll(Tail(raw_data), Tail(ticks),
                 IF normalized # NoRecord
                 THEN [acc EXCEPT !.valid = Append(@, normalized)]
                 ELSE [acc EXCEPT !.skipped = @ + 1])

\* the clock readings of n calls in a row that start at tick t: a call reads
\* the tick of the call before it or the next one
Readings(n, t) ==
    {r \in [1..n -> t..(t + n)] :
        /\ n > 0 => r[1] = t
        /\ \A k \in 1..(n - 1) : r[k + 1] \in {r[k], r[k] + 1}}

\* find_duplicates: the taxa in order of first sight
RECURSIVE TaxaInOrder(_, _)
TaxaInOrder(records, acc) ==
    IF records = <<>> THEN acc
    ELSE IF \E k \in 1..Len(acc) : acc[k] = records[1]["taxon"]
         THEN TaxaInOrder(Tail(records), acc)
         ELSE TaxaInOrder(Tail(records), Append(acc, records[1]["taxon"]))

\* find_duplicates: the records of one taxon, in list order
RECURSIVE GroupOf(_, _)
GroupOf(records, taxon) ==
    IF records = <<>> THEN <<>>
    ELSE (IF records[1]["taxon"] = taxon THEN <<records[1]>> ELSE <<>>)
         \o GroupOf(Tail(records), taxon)

\* merged_records of ingest_nemaguild.main
merged_records(valid_records) ==
    LET taxa == TaxaInOrder(valid_records, <<>>)
    IN  [k \in 1..Len(taxa) |-> merge_duplicate_records(GroupOf(valid_records, taxa[k]))]

\* the position of the row of a key in a table, 0 if there is none
RowIndex(tbl, key) ==
    IF \E i \in 1..Len(tbl) : tbl[i][KeyField] = key
    THEN CHOOSE i \in 1..Len(tbl) : tbl[i][KeyField] = key
    ELSE 0

\* get_existing_guids: the guids of the list that the table holds, as a set
get_existing_guids(tbl, guids) ==
    {guids[k] : k \in {j \in 1..Len(guids) : RowIndex(tbl, guids[j]) > 0}}

\* ingest_funguild.upsert_many up to executemany
fun_upsert_many(tbl, records) ==
    LET guids == [k \in 1..Len(records) |-> records[k]["guid"]]
        updated_count == Cardinality(get_existing_guids(tbl, guids))
    IN  [processed |-> records,
         inserted_count |-> Len(records) - updated_count,
         updated_count |-> updated_count,
         merged_citations_count |-> 0]

\* ingest_nemaguild.upsert_many up to executemany: existing_records is read
\* once, before the loop
RECURSIVE NemaProcess(_, _, _)
NemaProcess(tbl, records, acc) ==
    IF records = <<>> THEN acc
    ELSE LET rec == records[1]
             i   == RowIndex(tbl, rec["taxon"])
         IN  IF i > 0
             THEN LET merged == merge_duplicate_records(<<tbl[i], rec>>)
                  IN  NemaProcess(tbl, Tail(records),
                          [acc EXCEPT !.processed = Append(@, merged),
                                      !.updated_count = @ + 1,
                                      !.merged_citations_count =
                                          IF tbl[i]["citationSource"] # merged["citationSource"]
                                          THEN @ + 1 ELSE @])
             ELSE NemaProcess(tbl, Tail(records),
                      [acc EXCEPT !.processed = Append(@, rec), !.inserted_count = @ + 1])

nema_upsert_many(tbl, records) ==
    NemaProcess(tbl, records,
        [processed |-> <<>>, inserted_count |-> 0, updated_count |-> 0,
         merged_citations_count |-> 0])

upsert_many(tbl, records) ==
    IF script = "funguild" THEN fun_upsert_many(tbl, records)
    ELSE nema_upsert_many(tbl, records)

\* INSERT .. ON CONFLICT(key) DO UPDATE SET every other column = excluded
Upsert(tbl, row) ==
    IF RowIndex(tbl, row[KeyField]) > 0
    THEN [tbl EXCEPT ![RowIndex(tbl, row[KeyField])] = row]
    ELSE Append(tbl, row)

\* every statement committed as it runs
DurableAutocommit(tbl, cn) == cn

\* what the file holds after a statement inside "with conn:": the
\* transaction is open, nothing is written until its commit
Durable(tbl, cn) == tbl

InitIngest ==
    /\ CrawlerIdle
    /\ arg = <<>> /\ ret = <<>> /\ fn = "main"
    /\ script \in {"funguild", "nemaguild"}
    /\ table = <<>> /\ conn = <<>> /\ main = MainIdle
    /\ clock = 0 /\ ingests = 0 /\ before = <<>>

\* python ingest_*.py: a fresh process; "1. Fetch"
FetchData ==
    /\ main.pc \in {"idle", "returned", "exited"}
    /\ ingests < MaxIngests
    /\ \E body \in Bodies :
          LET raw_data == fetch_data(body)
          IN  main' = IF raw_data.ok
                      THEN [MainIdle EXCEPT !.pc = "fetched", !.raw_data = raw_data.data,
                                            !.total_fetched = Len(raw_data.data)]
                      ELSE [MainIdle EXCEPT !.pc = "exited", !.status = 1,
                                            !.failure = raw_data.failure]
    /\ ingests' = ingests + 1
    /\ clock' = clock + 1
    /\ conn' = table
    /\ before' = table
    /\ UNCHANGED <<crawlVars, flatVars, script, table>>

\* "3. Normalize"
Normalize ==
    /\ main.pc = "fetched"
    /\ \E ticks \in Readings(Len(main.raw_data), clock) :
          LET n == NormalizeAll(main.raw_data, ticks, [valid |-> <<>>, skipped |-> 0])
          IN  /\ main' = [main EXCEPT !.records = n.valid, !.skipped = n.skipped,
                                      !.pc = IF script = "nemaguild" THEN "normalized"
                                             ELSE "valid"]
              /\ clock' = IF ticks = <<>> THEN clock ELSE ticks[Len(ticks)]
    /\ UNCHANGED <<crawlVars, flatVars, script, table, conn, ingests, before>>

\* ingest_nemaguild.main "4. Find and merge duplicates within the fetched data"
MergeBatch ==
    /\ main.pc = "normalized"
    /\ main' = [main EXCEPT !.records = merged_records(main.records),
                            !.internal_duplicates =
                                Len(main.records) - Len(merged_records(main.records)),
                            !.pc = "valid"]
    /\ UNCHANGED <<crawlVars, flatVars, script, table, conn, clock, ingests, before>>

\* "if args.dry_run": no database operation
DryRun ==
    /\ main.pc = "valid"
    /\ main' = [main EXCEPT !.dry_run = TRUE, !.pc = "done"]
    /\ UNCHANGED <<crawlVars, flatVars, script, table, conn, clock, ingests, before>>

\* sqlite3.connect, init_db, "with conn:", upsert_many up to executemany
BeginUpsert ==
    /\ main.pc = "valid"
    /\ conn' = table
    /\ LET u == upsert_many(table, main.records)
       IN  main' = [main EXCEPT !.processed = u.processed, !.i = 1,
                               !.inserted_count = u.inserted_count,
                               !.updated_count = u.updated_count,
                               !.merged_citations_count = u.merged_citations_count,
                               !.pc = "execute"]
    /\ UNCHANGED <<crawlVars, flatVars, script, table, clock, ingests, before>>

\* conn.executemany: the statement of one record
ExecuteRow ==
    /\ main.pc = "execute"
    /\ main.i <= Len(main.processed)
    /\ conn' = Upsert(conn, main.processed[main.i])
    /\ table' = Durable(table, conn')
    /\ main' = [main EXCEPT !.i = @ + 1]
    /\ UNCHANGED <<crawlVars, flatVars, script, clock, ingests, before>>

\* a sqlite3.Error from connect, init_db or a statement: "with conn:" rolls
\* back, "except sqlite3.Error" calls sys.exit(1)
StorageError ==
    /\ main.pc \in {"valid", "execute"}
    /\ conn' = table
    /\ main' = [main EXCEPT !.pc = "exited", !.status = 1, !.failure = "storage"]
    /\ UNCHANGED <<crawlVars, flatVars, script, table, clock, ingests, before>>

\* upsert_many returns, "with conn:" commits, conn.close()
Commit ==
    /\ main.pc = "execute"
    /\ main.i > Len(main.processed)
    /\ table' = conn
    /\ main' = [main EXCEPT !.inserted = main.inserted_count,
                            !.updated = main.updated_count,
                            !.merged_citations = main.merged_citations_count,
                            !.commits = @ + 1,
                            !.pc = "done"]
    /\ UNCHANGED <<crawlVars, flatVars, script, conn, clock, ingests, before>>

\* "# Summary": the prints, then return 0
PrintSummary ==
    /\ main.pc = "done"
    /\ main' = [main EXCEPT !.printed = TRUE, !.status = 0, !.pc = "returned"]
    /\ UNCHANGED <<crawlVars, flatVars, script, table, conn, clock, ingests, before>>

NextIngest ==
    \/ FetchData
    \/ Normalize
    \/ MergeBatch
    \/ DryRun
    \/ BeginUpsert
    \/ ExecuteRow
    \/ StorageError
    \/ Commit
    \/ PrintSummary

SpecIngest == InitIngest /\ [][NextIngest]_vars

----------------------------------------------------------------------------
(* Properties of the crawler, checked under Spec *)

Ended == pc \in {"committed", "aborted"}

ParentOf(tbl, guid) == tbl[CHOOSE i \in 1..Len(tbl) : tbl[i].guid = guid].parent_guid

Keys(tbl) == {<<tbl[i].taxon, tbl[i].taxonomicLevel>> : i \in 1..Len(tbl)}

\* the last step handled a child of the for loop
ChildOps == {"skip_name", "skip_rank", "abort_norank", "abort_conflict", "insert", "update"}

\* C1: a second crawl of an unchanged source, with no fetch failure in either
\* crawl, ends with the same identifiers, the same parent link for each
\* identifier and the same number of rows as the first crawl ended with.
C1_CrawlIdempotent ==
    (Ended /\ prev.ran /\ prev.source = source /\ prev.clean /\ failures = 0)
        => /\ Guids(db) = Guids(prev.db)
           /\ Len(db) = Len(prev.db)
           /\ \A g \in Guids(db) : ParentOf(db, g) = ParentOf(prev.db, g)

C1_Witness ==
    /\ pc = "committed" /\ prev.ran /\ prev.source = source /\ prev.clean /\ failures = 0
    /\ Len(db) >= 3
    /\ \E i \in 1..Len(db) : db[i].parent_guid # ANCHOR_FUNGI_GUID

\* C2: an upsert of a (name, level) that already has a row returns the stored
\* identifier of that row, adds no row, and leaves every column of every row
\* as it was except the parent link of that one row.
C2_UpdateTouchesOnlyParent ==
    [][lastOp'.kind = "update" =>
        LET i == SelectIdx(work, lastOp'.child.name, LevelOf(lastOp'.child.rank))
        IN  /\ i # 0
            /\ lastOp'.guid = work[i].guid
            /\ Len(work') = Len(work)
            /\ \A j \in 1..Len(work) :
                 /\ work'[j].guid = work[j].guid
                 /\ work'[j].taxon = work[j].taxon
                 /\ work'[j].taxonomicLevel = work[j].taxonomicLevel
                 /\ work'[j].raw_json = work[j].raw_json
                 /\ work'[j].ingested_at = work[j].ingested_at
                 /\ (j # i => work'[j].parent_guid = work[j].parent_guid)
            /\ work'[i].parent_guid = lastOp'.parent]_vars

\* the found row was minted from another external id, and stored in an earlier crawl
C2_Witness ==
    /\ lastOp.kind = "update"
    /\ lastOp.guid # MintGuid(lastOp.child.rank, lastOp.child.id)
    /\ \E i \in 1..Len(work) :
         /\ work[i].guid = lastOp.guid
         /\ work[i].ingested_at[1] < run
         /\ work[i].raw_json # JsonDumps(lastOp.child)

\* C3: a child whose minted identifier (rank, external id) an earlier crawl
\* stored is updated when a later crawl sights it: no INSERT carrying an
\* identifier that is already stored is ever issued.
C3_NoDuplicateInsert ==
    (/\ lastOp.kind \in {"insert", "update", "abort_conflict"}
     /\ prev.ran
     /\ MintGuid(lastOp.child.rank, lastOp.child.id) \in Guids(prev.db))
        => lastOp.kind = "update"

\* C4: in the table as the connection sees it and in the table as committed,
\* every row's parent link is the anchor or the identifier of a row of that
\* same table, at every point of every crawl, after every commit and rollback.
Referential(tbl) ==
    \A i \in 1..Len(tbl) :
        tbl[i].parent_guid = ANCHOR_FUNGI_GUID \/ tbl[i].parent_guid \in Guids(tbl)

C4_ParentPresent == Referential(work) /\ Referential(db)

\* after a rollback the committed batch holds rows below the first level
C4_Witness ==
    /\ pc = "aborted"
    /\ Len(db) >= BATCH
    /\ \E i \in 1..Len(db) : db[i].parent_guid # ANCHOR_FUNGI_GUID

\* C5: when a crawl aborts after n upserts the table is the one of the last
\* batch commit, the table right after upsert number BATCH * (n \div BATCH)
\* (the table the crawl started with when n < BATCH): at most BATCH - 1
\* upserts are lost.
C5_RollbackToLastBatch ==
    pc = "aborted"
        => /\ db = snap
           /\ work = snap
           /\ record_counter - BATCH * (record_counter \div BATCH) <= BATCH - 1

C5_Witness ==
    /\ pc = "aborted"
    /\ record_counter > BATCH
    /\ record_counter % BATCH # 0
    /\ Len(db) >= BATCH

\* what a crawl upserts below api_id when the fetches of the paths in
\* `failed` return nothing: the (name, level) keys
RECURSIVE Expected(_, _, _)
Expected(api_id, idx, path) ==
    IF idx >= NumRanks \/ path \in failed THEN {}
    ELSE LET children == Children(source, api_id)
         IN  UNION { LET c == children[k]
                     IN  IF SkipName(c.name) \/ c.rank = None THEN {}
                         ELSE IF LevelOf(c.rank) = NoLevel THEN {}
                         ELSE {<<c.name, LevelOf(c.rank)>>}
                              \cup (IF Lower(c.rank) # "species"
                                    THEN Expected(c.id, idx + 1, Append(path, k))
                                    ELSE {})
                   : k \in 1..Len(children) }

\* C6: a failed fetch acts as an empty child list: the step changes no row
\* and aborts nothing, the node whose children were asked for stays stored,
\* the caller goes on with its next child, and the final commit holds every
\* node of the source outside the subtrees whose fetch failed.
C6_FetchFailureIsEmptyList ==
    /\ [][lastOp'.kind = "fetch_fail" =>
            /\ pc' = "crawl"
            /\ work' = work /\ db' = db /\ record_counter' = record_counter
            /\ stack' = Pop
            /\ (lastOp'.parent = ANCHOR_FUNGI_GUID \/ lastOp'.parent \in Guids(work'))]_vars
    /\ [](pc = "committed" => Expected("F", 1, <<>>) \subseteq Keys(db))

\* the fetch below the first phylum failed and the second phylum is committed
C6_Witness ==
    /\ pc = "committed"
    /\ <<1>> \in failed
    /\ <<"Ascomycota", 3>> \in Keys(db)
    /\ <<"Basidiomycota", 3>> \in Keys(db)
    /\ <<"Eurotiales", 7>> \in Keys(db)

\* C7: a child whose name is blank or "Not assigned", or whose rank is no key
\* of the mapping (a child without rank included), is skipped: nothing is
\* stored for it and the crawl goes on with the next sibling; every other
\* child is stored under the identifier of the node whose children were fetched.
Unstorable(c) ==
    \/ SkipName(c.name)
    \/ c.rank = None
    \/ LevelOf(c.rank) = NoLevel

C7_UnstorableChildSkipped ==
    lastOp.kind \in ChildOps =>
        IF Unstorable(lastOp.child)
        THEN lastOp.kind \in {"skip_name", "skip_rank"} /\ pc = "crawl"
        ELSE \E i \in 1..Len(work) :
                /\ work[i].taxon = lastOp.child.name
                /\ work[i].taxonomicLevel = LevelOf(lastOp.child.rank)
                /\ work[i].parent_guid = lastOp.parent

----------------------------------------------------------------------------
(* More properties of extract_json_array, checked under SpecExtract *)

\* the positions of a "]" at or after the first "[" up to which the text from
\* the first "[" is one JSON list
ListEnds(text) ==
    LET first_open == Find(text, "[")
    IN  IF first_open = 0 THEN {}
        ELSE {e \in first_open..Len(text) :
                /\ text[e] = "]"
                /\ JsonLoads(SubSeq(text, first_open, e)).ok
                /\ IsList(JsonLoads(SubSeq(text, first_open, e)).val)}

\* C18: for every text, extract_json_array of both scripts returns the parse
\* of the text from the first "[" to the right-most "]" up to which that text
\* is a JSON list, and returns None exactly when there is no such "]" (so
\* also when there is no "["); no later "[" is ever the start.
C18_FirstOpenRightmostClose ==
    Extracted =>
        IF ListEnds(arg) = {} THEN ret = NoList
        ELSE LET e == CHOOSE x \in ListEnds(arg) : \A y \in ListEnds(arg) : y <= x
             IN  ret = [ok |-> TRUE, data |-> JsonLoads(SubSeq(arg, Find(arg, "["), e)).val]

\* the shrinking search succeeded at a "]" that is not the last one
C18_Witness ==
    /\ Extracted
    /\ ret.ok
    /\ \E e \in ListEnds(arg) : e < RFind(arg, "]")

----------------------------------------------------------------------------
(* More properties of merge_duplicate_records, checked under SpecMerge *)

\* no member of the group has a citation entry
NoCitations(records) ==
    \A k \in 1..Len(records) : records[k]["citationSource"] \in {Null, <<>>}

\* the most recent member, the first in arrival order among equally recent ones
MostRecent(records) ==
    records[CHOOSE k \in 1..Len(records) :
                \A j \in 1..Len(records) :
                    \/ Tick(records[j]) < Tick(records[k])
                    \/ Tick(records[j]) = Tick(records[k]) /\ k <= j]

\* C14 as stated: merging a group of two or more records none of which has
\* a citation entry gives the empty string as citation source, not null.
C14_EmptyCitationsGiveEmptyString ==
    (fn = "merged" /\ Len(arg) >= 2 /\ NoCitations(arg))
        => ret["citationSource"] = <<>>

\* C14 amended: merging a group of two or more records none of which has a
\* citation entry leaves the citation source of the most recent member as it
\* is: null when that is null, the empty string when that is empty.
C14_EmptyCitationsKeepMostRecent ==
    (fn = "merged" /\ Len(arg) >= 2 /\ NoCitations(arg))
        => ret["citationSource"] = MostRecent(arg)["citationSource"]

\* a group with an empty and a null citation source merged to null
C14_Witness ==
    /\ fn = "merged"
    /\ Len(arg) >= 2
    /\ NoCitations(arg)
    /\ \E k \in 1..Len(arg) : arg[k]["citationSource"] = <<>>
    /\ ret["citationSource"] = Null

----------------------------------------------------------------------------
(* Properties of the flat ingestion, checked under SpecIngest *)

\* the run of main has committed its batch
Committed == main.pc \in {"done", "returned"} /\ ~main.dry_run

RowOf(tbl, key) == tbl[RowIndex(tbl, key)]

\* the fields of a stored record other than its key, citation source, raw
\* payload and timestamp
DataFields ==
    {"guid", "taxon", "mbNumber", "taxonomicLevel", "trophicMode", "guild",
     "confidenceRanking", "growthForm", "trait", "notes"} \ {KeyField}

\* the entries of a citation source
Entries(cit) ==
    LET parts == Unique(AllParts(<<cit>>), <<>>)
    IN  {parts[k] : k \in 1..Len(parts)}

\* the records of the batch that carry a key
Carrying(records, key) == {k \in 1..Len(records) : records[k][KeyField] = key}

\* C11: in the taxon-keyed dataset a field of the stored record of a taxon
\* that is non-null before a run is non-null after it, for every field of the
\* record, also when the new record has null there.
C11_NonNullNeverBlanked ==
    (script = "nemaguild" /\ Committed) =>
        \A i \in 1..Len(before) : \A f \in DataFields :
            before[i][f] # Null =>
                /\ RowIndex(table, before[i]["taxon"]) > 0
                /\ RowOf(table, before[i]["taxon"])[f] # Null

\* C12: in both datasets the citation entries stored for a key never lose an
\* entry: after a run that carries the key they are the union of the entries
\* stored before and the entries of the new records, and the entries of the
\* keys the run does not carry are as before.
C12_CitationsOnlyGrow ==
    Committed =>
        \A i \in 1..Len(before) :
            LET key == before[i][KeyField]
                old == Entries(before[i]["citationSource"])
                new == UNION {Entries(main.records[k]["citationSource"]) :
                                 k \in Carrying(main.records, key)}
            IN  /\ RowIndex(table, key) > 0
                /\ Entries(RowOf(table, key)["citationSource"]) = old \cup new

C15_CountsMatchRows ==
    Committed =>
        /\ main.inserted = Len(table) - Len(before)
        /\ main.updated =
               Cardinality({i \in 1..Len(before) :
                               Carrying(main.processed, before[i][KeyField]) # {}})
        /\ \A k \in 1..Len(main.processed) :
               Cardinality({j \in 1..Len(table) :
                               table[j][KeyField] = main.processed[k][KeyField]}) = 1

\* C16: the write of one run is all or nothing: while the batch is executed
\* and after a storage error the file holds the table as it was before the
\* batch, and the connection has rolled back; without an error one commit
\* stores the record of every key of the batch.
C16_AllOrNothing ==
    /\ main.pc = "execute" => table = before
    /\ (main.pc = "exited" /\ main.failure = "storage") => (table = before /\ conn = before)
    /\ Committed =>
          /\ main.commits = 1
          /\ \A k \in 1..Len(main.processed) :
                /\ RowIndex(table, main.processed[k][KeyField]) > 0
                /\ \E j \in Carrying(main.processed, main.processed[k][KeyField]) :
                      RowOf(table, main.processed[k][KeyField]) = main.processed[j]

\* a storage error after the first of two records was written
C16_Witness ==
    /\ main.pc = "exited"
    /\ main.failure = "storage"
    /\ Len(main.processed) = 2
    /\ main.i = 2

\* C17: every run of main prints the summary, also when it ends in a
\* transport, parse or storage failure, and the exit status is non-zero after
\* a transport or storage failure.  (A run that has ended has printed.)
C17_SummaryAlwaysPrinted ==
    main.pc \in {"returned", "exited"} =>
        /\ main.printed
        /\ main.failure \in {"transport", "storage"} => main.status \notin {-1, 0}

----------------------------------------------------------------------------
(* Termination of the crawl, checked under SpecLive *)

\* the calls of ingest_recursive nest with rank index 1, 2, ..: a call at
\* index 7 returns before it fetches, so at most 6 calls fetch
DepthBounded ==
    /\ Len(stack) <= NumRanks
    /\ \A k \in 1..Len(stack) :
          /\ stack[k].current_rank_index = k
          /\ stack[k].pos > 0 => k < NumRanks

\* every call below the first was made for a child whose rank is not species
NoCallForSpecies ==
    \A k \in 2..Len(stack) :
        LET caller == stack[k - 1]
        IN  /\ caller.pos >= 2
            /\ Lower(caller.children[caller.pos - 1].rank) # "species"

\* C19: a crawl started by run_ingestion ends (commits or aborts) for every
\* source, cyclic or without species: the recursion stops at rank index 7,
\* so fetches are issued in at most 6 nested calls, and no call is made for
\* the children of a species.
C19_CrawlTerminates ==
    /\ (pc = "crawl") ~> (pc \in {"committed", "aborted"})
    /\ [](DepthBounded /\ NoCallForSpecies)

\* a cyclic source without species drove the recursion to rank index 7
C19_Witness ==
    /\ pc = "crawl"
    /\ source = SrcCycle
    /\ lastOp.kind = "depth_return"
    /\ Len(stack) = NumRanks - 1

=============================================================================
